---- MODULE Spec2Model ----
(***************************************************************************)
(* Model of the watcher addon (src/src/lib.rs, with the older copy in      *)
(* src/watcher/src/lib.rs): subscribe, Subscription::unsubscribe, and the  *)
(* closure handed to new_debouncer, which classifies and filters each      *)
(* debounced result and hands a WatchCallbackResult to the threadsafe      *)
(* function.                                                               *)
(*                                                                         *)
(* Two threads act. The JavaScript thread runs subscribe, unsubscribe and  *)
(* the consumer callback (one at a time). The debouncer thread runs the    *)
(* closure. The debouncer itself (notify_debouncer_full) and the glob      *)
(* engine (globset) are dependencies: the debouncer is the environment     *)
(* that chooses each DebounceEventResult, the glob engine is the match     *)
(* table GlobMatch over the few patterns the model offers.                 *)
(***************************************************************************)
EXTENDS Naturals, Sequences, FiniteSets

VARIABLES
  phase,        \* "init" | "active" (subscribe returned Ok) | "failed" (returned Err)
  error,        \* which check of subscribe failed, "none" otherwise
  args,         \* the arguments subscribe was called with
  glob_set,     \* the compiled ignore patterns (Arc<GlobSet>)
  running,      \* Subscription.running (Arc<AtomicBool>)
  watcher,      \* Subscription.watcher: "Some" | "None"
  watchStarted, \* debouncer.watch(..) succeeded: the platform watch was started
  releases,     \* how many times a Debouncer has been dropped
  unsubCalls,   \* calls of unsubscribe begun
  unsubReturns, \* calls of unsubscribe that returned Ok(())
  jsPc,         \* the JavaScript thread: "idle" | "unsub" (between store and take)
  thread,       \* the debouncer thread: "none" | "alive" | "exited"
  inflight,     \* the closure's invocation past its flag load, or NoFlush
  flushLog,     \* every invocation of the closure: its result, the flag it loaded
  queue,        \* the threadsafe function's call queue
  delivered     \* the consumer callback's invocations, in order

vars == <<phase, error, args, glob_set, running, watcher, watchStarted, releases,
          unsubCalls, unsubReturns, jsPc, thread, inflight, flushLog, queue, delivered>>

\* ------------------------------------------------------------------ bounds

\* Invocations of the debouncer closure in one run.
MaxFlushes == 2

\* Calls of unsubscribe in one run.
MaxUnsub == 2

\* ------------------------------------------------------------------- paths

\* A path is the sequence of its components; "/" is the root component.
base_path == <<"/", "r">>

PathA == <<"/", "r", "a">>
PathB == <<"/", "r", "b">>
PathOut == <<"/", "x">>
\* A file name that is not valid UTF-8 (the byte 0xFF).
PathBad == <<"/", "r", "0xFF">>

starts_with(path, base) ==
  /\ Len(base) <= Len(path)
  /\ SubSeq(path, 1, Len(base)) = base

\* Path::strip_prefix: Ok(the rest) when base is a component-wise prefix.
strip_prefix(path, base) ==
  IF starts_with(path, base)
    THEN [ok |-> TRUE, rest |-> SubSeq(path, Len(base) + 1, Len(path))]
    ELSE [ok |-> FALSE, rest |-> <<>>]

\* Path::to_string_lossy().to_string(): valid UTF-8 is kept, an invalid byte
\* becomes U+FFFD.
to_string_lossy(path) ==
  [i \in 1..Len(path) |-> IF path[i] = "0xFF" THEN "U+FFFD" ELSE path[i]]

\* ---------------------------------------------------------------- patterns

\* The ignore patterns offered to subscribe. "[" is an unclosed character
\* class, which Glob::new rejects.
Patterns == {"a", "/r/b", "*", "["}

GlobValid(pattern) == pattern # "["

\* Glob matching of one pattern against a whole path: a literal pattern
\* matches that path only, "*" matches any path (separators included).
GlobMatch(pattern, path) ==
  CASE pattern = "a"    -> path = <<"a">>
    [] pattern = "/r/b" -> path = PathB
    [] pattern = "*"    -> TRUE
    [] OTHER            -> FALSE

\* GlobSet::is_match: some pattern of the set matches.
is_match(set, path) == \E i \in 1..Len(set) : GlobMatch(set[i], path)

build_glob_set_skip_invalid(patterns) ==
  [ok |-> TRUE, set |-> patterns]

\* build_glob_set: the first pattern that fails to compile fails the build.
build_glob_set(patterns) ==
  IF \A i \in 1..Len(patterns) : GlobValid(patterns[i])
    THEN [ok |-> TRUE, set |-> patterns]
    ELSE [ok |-> FALSE, set |-> <<>>]

should_ignore_relative_only(path, set, base) ==
  LET relative == strip_prefix(path, base)
  IN  relative.ok /\ is_match(set, relative.rest)

\* should_ignore: the path relative to base_path first, the full path after.
should_ignore(path, set, base) ==
  LET relative == strip_prefix(path, base)
  IN  IF relative.ok /\ is_match(set, relative.rest)
        THEN TRUE
        ELSE is_match(set, path)

\* ------------------------------------------------------------- event kinds

Kind(tag, sub) == [tag |-> tag, sub |-> sub]

\* notify::EventKind with its sub-kinds.
EventKinds ==
  {Kind("Any", "-"), Kind("Other", "-")}
  \cup {Kind("Access", s) : s \in {"Any", "Read", "Open", "Close", "Other"}}
  \cup {Kind("Create", s) : s \in {"Any", "File", "Folder", "Other"}}
  \cup {Kind("Modify", s) : s \in {"Any", "Data", "Metadata", "Name", "Other"}}
  \cup {Kind("Remove", s) : s \in {"Any", "File", "Folder", "Other"}}

event_kind_to_type_other_as_update(kind) ==
  CASE kind.tag = "Create" /\ kind.sub \in {"File", "Folder", "Any"} -> "create"
    [] kind.tag = "Remove" /\ kind.sub \in {"File", "Folder", "Any"} -> "delete"
    [] kind.tag \in {"Create", "Remove"} -> "None"
    [] OTHER -> "update"

\* event_kind_to_type: Some("create" | "update" | "delete") or "None".
event_kind_to_type(kind) ==
  CASE kind.tag = "Create" /\ kind.sub \in {"File", "Folder", "Any"} -> "create"
    [] kind.tag = "Modify" /\ kind.sub \in {"Data", "Name", "Any", "Metadata"} -> "update"
    [] kind.tag = "Remove" /\ kind.sub \in {"File", "Folder", "Any"} -> "delete"
    [] OTHER -> "None"

\* ------------------------------------------------- the debouncer's results

Debounced(kind, paths) == [kind |-> kind, paths |-> paths]

Ok(events) == [ok |-> TRUE, events |-> events]
Err == [ok |-> FALSE, events |-> <<>>]

\* The DebounceEventResults the debouncer hands to the closure: a stream
\* failure, a create, a kind that classifies to None, a rename carrying both
\* paths, a create and a remove of one path, a remove outside base_path, a
\* data change, and a create of a name that is not valid UTF-8.
DebounceResults ==
  { Err,
    Ok(<<Debounced(Kind("Create", "File"), <<PathA>>)>>),
    Ok(<<Debounced(Kind("Access", "Read"), <<PathA>>)>>),
    Ok(<<Debounced(Kind("Modify", "Name"), <<PathA, PathB>>)>>),
    Ok(<<Debounced(Kind("Create", "File"), <<PathA>>),
         Debounced(Kind("Remove", "File"), <<PathA>>)>>),
    Ok(<<Debounced(Kind("Remove", "Folder"), <<PathOut>>)>>),
    Ok(<<Debounced(Kind("Modify", "Data"), <<PathB>>)>>),
    Ok(<<Debounced(Kind("Create", "Folder"), <<PathBad>>)>>) }

\* ------------------------------------------------------- subscribe's inputs

Directories == {"", "missing", "file", "dir"}
Callbacks == {"Function", "Object"}
IgnoreLists == {<<>>, <<"a">>, <<"/r/b">>, <<"*">>, <<"[">>, <<"a", "[">>, <<"[", "a">>}
\* What the platform lets fail: canonicalize, new_debouncer, debouncer.watch.
Failures == {"none", "canonicalize", "new_debouncer", "watch"}

NoArgs == [directory |-> "-", callback |-> "-", ignore |-> <<>>, failure |-> "-"]
NoFlush == [id |-> 0, result |-> Err]

\* ------------------------------------------------------ the closure's body

WatchEvent(path, event_type) == [path |-> to_string_lossy(path), event_type |-> event_type]

path_events_first_only(paths, event_type, set, base) ==
  IF paths = <<>> \/ should_ignore(Head(paths), set, base)
    THEN <<>>
    ELSE <<WatchEvent(Head(paths), event_type)>>

\* for path in &event.paths { if !should_ignore(..) { events.push(..) } }
RECURSIVE path_events(_, _, _, _)
path_events(paths, event_type, set, base) ==
  IF paths = <<>>
    THEN <<>>
    ELSE LET rest == path_events(Tail(paths), event_type, set, base)
         IN  IF ~should_ignore(Head(paths), set, base)
               THEN <<WatchEvent(Head(paths), event_type)>> \o rest
               ELSE rest

\* for debounced_event in debounced_events { if let Some(event_type) = .. }
RECURSIVE collect_events(_, _, _)
collect_events(debounced_events, set, base) ==
  IF debounced_events = <<>>
    THEN <<>>
    ELSE LET event == Head(debounced_events)
             event_type == event_kind_to_type(event.kind)
             rest == collect_events(Tail(debounced_events), set, base)
         IN  IF event_type # "None"
               THEN path_events(event.paths, event_type, set, base) \o rest
               ELSE rest

WatchCallbackResult(err, events) == [error |-> err, events |-> events]

callback_calls_no_empty_check(result, set, base) ==
  IF result.ok
    THEN <<WatchCallbackResult("None", collect_events(result.events, set, base))>>
    ELSE <<WatchCallbackResult("Some", <<>>)>>

callback_calls_swallow_errors(result, set, base) ==
  IF result.ok
    THEN LET events == collect_events(result.events, set, base)
         IN  IF events # <<>> THEN <<WatchCallbackResult("None", events)>> ELSE <<>>
    ELSE <<>>

\* match result { Ok(..) => .., Err(..) => .. }: the WatchCallbackResults the
\* closure hands to tsfn.call, none or one.
callback_calls(result, set, base) ==
  IF result.ok
    THEN LET events == collect_events(result.events, set, base)
         IN  IF events # <<>> THEN <<WatchCallbackResult("None", events)>> ELSE <<>>
    ELSE <<WatchCallbackResult("Some", <<>>)>>

tsfn_call_twice(q, call) == Append(Append(q, call), call)

tsfn_call_in_front(q, call) == <<call>> \o q

\* tsfn.call(.., NonBlocking): the call joins the queue of the threadsafe
\* function, which subscribe builds without a queue limit.
tsfn_call(q, call) == Append(q, call)

watcher_take_drops_again(w) == [watcher |-> "None", dropped |-> 1]

watcher_take_keeps(w) == [watcher |-> w, dropped |-> 0]

\* self.watcher.take(): the Debouncer, when there is one, is dropped.
watcher_take(w) == [watcher |-> "None", dropped |-> IF w = "Some" THEN 1 ELSE 0]

\* -------------------------------------------------------------------- Init

Init ==
  /\ phase = "init"
  /\ error = "none"
  /\ args = NoArgs
  /\ glob_set = <<>>
  /\ running = FALSE
  /\ watcher = "None"
  /\ watchStarted = FALSE
  /\ releases = 0
  /\ unsubCalls = 0
  /\ unsubReturns = 0
  /\ jsPc = "idle"
  /\ thread = "none"
  /\ inflight = NoFlush
  /\ flushLog = <<>>
  /\ queue = <<>>
  /\ delivered = <<>>

\* --------------------------------------------------------------- subscribe

\* subscribe returns Err before anything is acquired.
Fail(a, why) ==
  /\ phase' = "failed"
  /\ error' = why
  /\ args' = a
  /\ UNCHANGED <<glob_set, running, watcher, watchStarted, releases, unsubCalls,
                 unsubReturns, jsPc, thread, inflight, flushLog, queue, delivered>>

\* The part both copies of subscribe share: from path.exists() on.
subscribe_from_exists(a) ==
  LET built == build_glob_set(a.ignore)
  IN  IF a.directory \in {"", "missing"} THEN Fail(a, "NotExist")
      ELSE IF a.directory # "dir" THEN Fail(a, "NotDirectory")
      ELSE IF a.failure = "canonicalize" THEN Fail(a, "Canonicalize")
      ELSE IF ~built.ok THEN Fail(a, "InvalidGlob")
      ELSE IF a.failure = "new_debouncer" THEN Fail(a, "CreateWatcher")
      ELSE IF a.failure = "watch"
        THEN \* the debouncer was created and is dropped by the early return
             /\ phase' = "failed"
             /\ error' = "WatchDirectory"
             /\ args' = a
             /\ glob_set' = built.set
             /\ thread' = "exited"
             /\ UNCHANGED <<running, watcher, watchStarted, releases, unsubCalls,
                            unsubReturns, jsPc, inflight, flushLog, queue, delivered>>
        ELSE /\ phase' = "active"
             /\ error' = "none"
             /\ args' = a
             /\ glob_set' = built.set
             /\ running' = TRUE
             /\ watcher' = "Some"
             /\ watchStarted' = TRUE
             /\ thread' = "alive"
             /\ UNCHANGED <<releases, unsubCalls, unsubReturns, jsPc, inflight,
                            flushLog, queue, delivered>>

\* subscribe of src/src/lib.rs.
subscribe ==
  /\ phase = "init"
  /\ \E d \in Directories, c \in Callbacks, i \in IgnoreLists, f \in Failures :
       LET a == [directory |-> d, callback |-> c, ignore |-> i, failure |-> f]
       IN  IF d = "" THEN Fail(a, "EmptyDirectory")
           ELSE IF c # "Function" THEN Fail(a, "NotFunction")
           ELSE subscribe_from_exists(a)

\* subscribe of src/watcher/src/lib.rs: the callback is typed Function, so a
\* value of another type fails the call's argument conversion.
subscribe_watcher ==
  /\ phase = "init"
  /\ \E d \in Directories, c \in Callbacks, i \in IgnoreLists, f \in Failures :
       LET a == [directory |-> d, callback |-> c, ignore |-> i, failure |-> f]
       IN  IF c # "Function" THEN Fail(a, "NotFunction")
           ELSE subscribe_from_exists(a)

\* ------------------------------------------------------------- unsubscribe

unsubscribe_store_toggles ==
  /\ phase = "active"
  /\ jsPc = "idle"
  /\ unsubCalls < MaxUnsub
  /\ running' = ~running
  /\ unsubCalls' = unsubCalls + 1
  /\ jsPc' = "unsub"
  /\ UNCHANGED <<phase, error, args, glob_set, watcher, watchStarted, releases,
                 unsubReturns, thread, inflight, flushLog, queue, delivered>>

\* self.running.store(false, Ordering::SeqCst)
unsubscribe_store ==
  /\ phase = "active"
  /\ jsPc = "idle"
  /\ unsubCalls < MaxUnsub
  /\ running' = FALSE
  /\ unsubCalls' = unsubCalls + 1
  /\ jsPc' = "unsub"
  /\ UNCHANGED <<phase, error, args, glob_set, watcher, watchStarted, releases,
                 unsubReturns, thread, inflight, flushLog, queue, delivered>>

\* self.watcher.take(); Ok(())
unsubscribe_take ==
  /\ jsPc = "unsub"
  /\ LET taken == watcher_take(watcher)
     IN  /\ watcher' = taken.watcher
         /\ releases' = releases + taken.dropped
  /\ unsubReturns' = unsubReturns + 1
  /\ jsPc' = "idle"
  /\ UNCHANGED <<phase, error, args, glob_set, running, watchStarted, unsubCalls,
                 thread, inflight, flushLog, queue, delivered>>

\* ------------------------------------------------- the debouncer's closure

\* The debouncer thread calls the closure: if !running_clone.load(SeqCst) { return; }
callback_load ==
  /\ thread = "alive"
  /\ inflight = NoFlush
  /\ Len(flushLog) < MaxFlushes
  /\ \E result \in DebounceResults :
       /\ flushLog' = Append(flushLog, [result |-> result, sawRunning |-> running])
       /\ inflight' = IF running
                        THEN [id |-> Len(flushLog) + 1, result |-> result]
                        ELSE NoFlush
  /\ UNCHANGED <<phase, error, args, glob_set, running, watcher, watchStarted,
                 releases, unsubCalls, unsubReturns, jsPc, thread, queue, delivered>>

RECURSIVE submit(_, _, _)
submit(q, calls, id) ==
  IF calls = <<>>
    THEN q
    ELSE submit(tsfn_call(q, [call |-> Head(calls), flush |-> id]), Tail(calls), id)

callback_dispatch_waits ==
  /\ inflight # NoFlush
  /\ queue = <<>>
  /\ queue' = submit(queue, callback_calls(inflight.result, glob_set, base_path), inflight.id)
  /\ inflight' = NoFlush
  /\ UNCHANGED <<phase, error, args, glob_set, running, watcher, watchStarted,
                 releases, unsubCalls, unsubReturns, jsPc, thread, flushLog, delivered>>

\* The rest of the closure: the match on the result, up to tsfn.call.
callback_dispatch ==
  /\ inflight # NoFlush
  /\ queue' = submit(queue, callback_calls(inflight.result, glob_set, base_path), inflight.id)
  /\ inflight' = NoFlush
  /\ UNCHANGED <<phase, error, args, glob_set, running, watcher, watchStarted,
                 releases, unsubCalls, unsubReturns, jsPc, thread, flushLog, delivered>>

\* The debouncer thread ends once its Debouncer has been dropped.
thread_exit ==
  /\ thread = "alive"
  /\ watcher = "None"
  /\ inflight = NoFlush
  /\ thread' = "exited"
  /\ UNCHANGED <<phase, error, args, glob_set, running, watcher, watchStarted,
                 releases, unsubCalls, unsubReturns, jsPc, inflight, flushLog,
                 queue, delivered>>

\* --------------------------------------------------- the consumer callback

tsfn_invoke_stops_on_error ==
  /\ jsPc = "idle"
  /\ queue # <<>>
  /\ delivered' = Append(delivered, [call |-> Head(queue).call,
                                     flush |-> Head(queue).flush,
                                     afterUnsub |-> unsubReturns > 0,
                                     backlog |-> Len(queue)])
  /\ queue' = Tail(queue)
  /\ running' = (running /\ Head(queue).call.error = "None")
  /\ UNCHANGED <<phase, error, args, glob_set, watcher, watchStarted,
                 releases, unsubCalls, unsubReturns, jsPc, thread, inflight, flushLog>>

\* The JavaScript thread, between its own calls, takes the oldest queued
\* call and invokes the consumer callback with it.
tsfn_invoke ==
  /\ jsPc = "idle"
  /\ queue # <<>>
  /\ delivered' = Append(delivered, [call |-> Head(queue).call,
                                     flush |-> Head(queue).flush,
                                     afterUnsub |-> unsubReturns > 0,
                                     backlog |-> Len(queue)])
  /\ queue' = Tail(queue)
  /\ UNCHANGED <<phase, error, args, glob_set, running, watcher, watchStarted,
                 releases, unsubCalls, unsubReturns, jsPc, thread, inflight, flushLog>>

Next ==
  \/ subscribe
  \/ subscribe_watcher
  \/ unsubscribe_store
  \/ unsubscribe_take
  \/ callback_load
  \/ callback_dispatch
  \/ thread_exit
  \/ tsfn_invoke

Spec == Init /\ [][Next]_vars

\* ------------------------------------------- every event kind, one closure

\* Results that carry each EventKind once: alone, inside and outside
\* base_path, and after a data change of another path.
KindResults ==
  { Ok(<<Debounced(k, <<p>>)>>) : k \in EventKinds, p \in {PathA, PathOut} }
  \cup { Ok(<<Debounced(Kind("Modify", "Data"), <<PathB>>), Debounced(k, <<PathA>>)>>) :
           k \in EventKinds }

\* An active Subscription whose closure was just called with one of the
\* KindResults and loaded running = true.
InitKinds ==
  /\ phase = "active"
  /\ error = "none"
  /\ \E i \in {l \in IgnoreLists : build_glob_set(l).ok} :
       /\ args = [directory |-> "dir", callback |-> "Function", ignore |-> i,
                  failure |-> "none"]
       /\ glob_set = build_glob_set(i).set
  /\ running = TRUE
  /\ watcher = "Some"
  /\ watchStarted = TRUE
  /\ releases = 0
  /\ unsubCalls = 0
  /\ unsubReturns = 0
  /\ jsPc = "idle"
  /\ thread = "alive"
  /\ \E r \in KindResults :
       /\ inflight = [id |-> 1, result |-> r]
       /\ flushLog = <<[result |-> r, sawRunning |-> TRUE]>>
  /\ queue = <<>>
  /\ delivered = <<>>

NextKinds ==
  \/ callback_dispatch
  \/ tsfn_invoke

SpecKinds == InitKinds /\ [][NextKinds]_vars

\* ---------------------------------------------------- what the claims read

\* The calls handed to the threadsafe function so far, oldest first: those the
\* consumer callback has run with, then those still queued.
Submitted ==
  [i \in 1..(Len(delivered) + Len(queue)) |->
     IF i <= Len(delivered)
       THEN [call |-> delivered[i].call, flush |-> delivered[i].flush]
       ELSE queue[i - Len(delivered)]]

\* The closure's invocation i has returned.
Returned(i) == i \in 1..Len(flushLog) /\ inflight.id # i

\* The (path, type) pairs a result classifies to.
Classified(result) ==
  UNION { { <<e.paths[j], event_kind_to_type(e.kind)>> : j \in 1..Len(e.paths) } :
            e \in { result.events[i] : i \in 1..Len(result.events) } }

\* An ignore pattern matches the path, relative to base_path or in full.
Ignored(path) ==
  \/ is_match(glob_set, path)
  \/ /\ starts_with(path, base_path)
     /\ is_match(glob_set, SubSeq(path, Len(base_path) + 1, Len(path)))

\* The batch a result leaves after classification and the ignore filter.
Surviving(result) ==
  { <<to_string_lossy(x[1]), x[2]>> :
      x \in { y \in Classified(result) : y[2] # "None" /\ ~Ignored(y[1]) } }

EventsOf(call) == { <<call.events[i].path, call.events[i].event_type>> : i \in 1..Len(call.events) }

SubmissionsOf(i) == { k \in 1..Len(Submitted) : Submitted[k].flush = i }
InvocationsOf(i) == { k \in 1..Len(delivered) : delivered[k].flush = i }

\* ------------------------------------------------------------------ claims

\* C1: once unsubscribe has returned, the consumer callback is never invoked
\* again, whatever was queued or in flight when it was called.
C1_NoInvocationAfterUnsubscribe ==
  \A k \in 1..Len(delivered) : ~delivered[k].afterUnsub

\* C2: every call of unsubscribe returns Ok, and the Debouncer is dropped by
\* the first call only: never twice, however many calls follow.
C2_UnsubscribeIdempotent ==
  /\ unsubReturns <= unsubCalls
  /\ (jsPc = "idle" => unsubReturns = unsubCalls)
  /\ releases <= 1
  /\ (unsubReturns >= 1 => releases = 1 /\ watcher = "None")

C2_Witness == unsubReturns >= 2 /\ releases = 1

\* C3: every invocation of the closure that loaded running = true and whose
\* result leaves a non-empty batch has handed exactly one call to the
\* threadsafe function, carrying that batch and no error; the call is queued
\* or has run the consumer callback once.
C3_OneDeliveryPerBatch ==
  \A i \in 1..Len(flushLog) :
    (/\ Returned(i)
     /\ flushLog[i].sawRunning
     /\ flushLog[i].result.ok
     /\ Surviving(flushLog[i].result) # {})
    => /\ Cardinality(SubmissionsOf(i)) = 1
       /\ Cardinality(InvocationsOf(i)) <= 1
       /\ \A k \in SubmissionsOf(i) :
            /\ Submitted[k].call.error = "None"
            /\ EventsOf(Submitted[k].call) = Surviving(flushLog[i].result)

C3_Witness ==
  /\ running
  /\ \E k \in 1..Len(delivered) :
       /\ Len(delivered[k].call.events) = 2
       /\ queue # <<>>

\* C4: every call handed to the consumer callback has either no error and at
\* least one event, or an error and no event; a result whose batch is empty
\* after classification and filtering hands over nothing.
C4_EventsOrError ==
  /\ \A k \in 1..Len(Submitted) :
       LET call == Submitted[k].call
       IN  \/ call.error = "None" /\ call.events # <<>>
           \/ call.error = "Some" /\ call.events = <<>>
  /\ \A i \in 1..Len(flushLog) :
       (Returned(i) /\ flushLog[i].result.ok /\ Surviving(flushLog[i].result) = {})
       => SubmissionsOf(i) = {}

C4_Witness ==
  /\ \E i \in 1..Len(flushLog) :
       /\ Returned(i)
       /\ flushLog[i].sawRunning
       /\ flushLog[i].result.ok
       /\ Surviving(flushLog[i].result) = {}
  /\ \E k \in 1..Len(delivered) : delivered[k].call.error = "Some"

\* C7: no call handed to the consumer callback holds an event whose path an
\* ignore pattern matches, in full or relative to base_path, whatever its type.
C7_NoIgnoredPathDelivered ==
  \A k \in 1..Len(Submitted) :
    \A j \in 1..Len(Submitted[k].call.events) :
      LET path == Submitted[k].call.events[j].path
      IN  /\ ~is_match(glob_set, path)
          /\ starts_with(path, base_path)
               => ~is_match(glob_set, SubSeq(path, Len(base_path) + 1, Len(path)))

\* A rename of PathA to PathB was delivered with one of its two paths
\* filtered out.
C7_Witness ==
  \E k \in 1..Len(delivered) :
    /\ delivered[k].call.events # <<>>
    /\ \E x \in Classified(flushLog[delivered[k].flush].result) :
         x[2] # "None" /\ Ignored(x[1])

PreconditionFails(a) ==
  \/ a.directory # "dir"
  \/ a.callback # "Function"
  \/ \E i \in 1..Len(a.ignore) : ~GlobValid(a.ignore[i])

\* C8: when the directory is empty, missing or not a directory, the callback
\* is not a function, or any one ignore pattern does not compile, subscribe
\* returns an error, no Subscription exists, no pattern is kept and no
\* debouncer or platform watch was ever started.
C8_SubscribeFailsBeforeWatch ==
  (phase # "init" /\ PreconditionFails(args))
  => /\ phase = "failed"
     /\ error # "none"
     /\ glob_set = <<>>
     /\ watcher = "None"
     /\ ~running
     /\ ~watchStarted
     /\ thread = "none"
     /\ flushLog = <<>>

\* A valid pattern followed by one that does not compile.
C8_Witness ==
  /\ phase = "failed"
  /\ error = "InvalidGlob"
  /\ args.ignore = <<"a", "[">>

\* C9: every stream failure the debouncer reports is handed to the consumer
\* callback as exactly one call with an error and no events.
C9_EveryFailureSurfaced ==
  \A i \in 1..Len(flushLog) :
    (Returned(i) /\ ~flushLog[i].result.ok)
    => /\ Cardinality(SubmissionsOf(i)) = 1
       /\ \A k \in SubmissionsOf(i) :
            Submitted[k].call.error = "Some" /\ Submitted[k].call.events = <<>>

\* C9, amended: a stream failure whose invocation of the closure loaded
\* running = true is handed over as exactly one call with an error and no
\* events; one whose invocation loaded running = false hands over nothing.
C9_FailureSurfacedWhileRunning ==
  \A i \in 1..Len(flushLog) :
    (Returned(i) /\ ~flushLog[i].result.ok)
    => IF flushLog[i].sawRunning
         THEN /\ Cardinality(SubmissionsOf(i)) = 1
              /\ Cardinality(InvocationsOf(i)) <= 1
              /\ \A k \in SubmissionsOf(i) :
                   Submitted[k].call.error = "Some" /\ Submitted[k].call.events = <<>>
         ELSE SubmissionsOf(i) = {}

\* Two failures, each delivered once, in one run.
C9_Witness ==
  /\ Len(flushLog) = 2
  /\ \A i \in 1..2 : ~flushLog[i].result.ok /\ Cardinality(InvocationsOf(i)) = 1

\* C11: the consumer callback runs with the calls in the order the closure
\* handed them to the threadsafe function, also for calls that waited in its
\* queue: of two calls, the one of the earlier invocation comes first.
C11_DeliveryInSubmissionOrder ==
  \A k1, k2 \in 1..Len(Submitted) :
    k1 < k2 => Submitted[k1].flush < Submitted[k2].flush

\* Two calls were queued together before the consumer callback ran with both.
C11_Witness ==
  /\ Len(delivered) = 2
  /\ delivered[1].backlog = 2

\* C12: running is true from subscribe until the first unsubscribe, false from
\* then on, and no step of any operation sets it back to true; the first
\* unsubscribe that returns has dropped the Debouncer.
C12_RunningFallsOnce ==
  /\ [](phase = "active" => (running <=> unsubCalls = 0))
  /\ [](unsubReturns >= 1 => watcher = "None" /\ releases = 1)
  /\ [][(phase = "active" /\ ~running) => ~running']_vars

\* A second unsubscribe, a closure invocation and a delivery after the flag fell.
C12_Witness ==
  /\ unsubReturns = 2
  /\ ~running
  /\ \E i \in 1..Len(flushLog) : ~flushLog[i].sawRunning
  /\ \E k \in 1..Len(delivered) : delivered[k].afterUnsub

\* The classification table: the kinds reported as create, update, delete.
CreateKinds == { Kind("Create", s) : s \in {"File", "Folder", "Any"} }
UpdateKinds == { Kind("Modify", s) : s \in {"Data", "Name", "Metadata", "Any"} }
DeleteKinds == { Kind("Remove", s) : s \in {"File", "Folder", "Any"} }

TableType(kind) ==
  IF kind \in CreateKinds THEN "create"
  ELSE IF kind \in UpdateKinds THEN "update"
  ELSE IF kind \in DeleteKinds THEN "delete"
  ELSE "None"

\* The batch of a result by the table: one (path, type) pair for every path
\* of an event of a reported kind that no ignore pattern matches.
TableBatch(result) ==
  UNION { { <<to_string_lossy(e.paths[j]), TableType(e.kind)>> :
              j \in { n \in 1..Len(e.paths) : ~Ignored(e.paths[n]) } } :
            e \in { result.events[i] : i \in { n \in 1..Len(result.events) :
                                                 TableType(result.events[n].kind) # "None" } } }

\* C13: event_kind_to_type gives every kind the one outcome of the table
\* (create, update, delete or None), and an event whose kind is None adds no
\* event to the batch and changes none: the call handed over is the batch of
\* the other events, and nothing is handed over when none is left.
C13_ClassifyByTable ==
  /\ \A i \in 1..Len(flushLog) :
       \A j \in 1..Len(flushLog[i].result.events) :
         LET kind == flushLog[i].result.events[j].kind
         IN  kind \in EventKinds /\ event_kind_to_type(kind) = TableType(kind)
  /\ \A i \in 1..Len(flushLog) :
       (Returned(i) /\ flushLog[i].result.ok)
       => /\ \A k \in SubmissionsOf(i) :
               EventsOf(Submitted[k].call) = TableBatch(flushLog[i].result)
          /\ TableBatch(flushLog[i].result) = {} => SubmissionsOf(i) = {}

\* A data change of PathB was delivered alone although the result also held
\* an access event.
C13_Witness ==
  /\ Len(flushLog[1].result.events) = 2
  /\ flushLog[1].result.events[2].kind = Kind("Access", "Open")
  /\ Len(delivered) = 1
  /\ EventsOf(delivered[1].call) = {<<PathB, "update">>}

\* C14: once unsubscribe has stored running = false, the closure hands no
\* further call, events or error, to the threadsafe function.
C14_NoSubmissionOnceStopped ==
  [][(phase = "active" /\ ~running) => Len(queue') <= Len(queue)]_vars

\* The (event, path) places of a result that are reported: the kind
\* classifies and no ignore pattern matches the path.
ReportedPlaces(result) ==
  UNION { { <<i, j>> : j \in { n \in 1..Len(result.events[i].paths) :
                                 ~Ignored(result.events[i].paths[n]) } } :
            i \in { n \in 1..Len(result.events) :
                      TableType(result.events[n].kind) # "None" } }

\* C16: a name-modified event is reported as an update of every path it
\* carries that is not ignored, the new path among them; every reported
\* place stays an event of its own, of type create, update or delete, so no
\* two are joined into a move.
C16_RenameIsUpdate ==
  \A i \in 1..Len(flushLog) :
    (Returned(i) /\ flushLog[i].sawRunning /\ flushLog[i].result.ok)
    => LET result == flushLog[i].result
       IN  /\ \A j \in 1..Len(result.events) :
                result.events[j].kind = Kind("Modify", "Name")
                => \A n \in 1..Len(result.events[j].paths) :
                     ~Ignored(result.events[j].paths[n])
                     => \E k \in SubmissionsOf(i) :
                          <<to_string_lossy(result.events[j].paths[n]), "update">>
                            \in EventsOf(Submitted[k].call)
           /\ \A k \in SubmissionsOf(i) :
                /\ Len(Submitted[k].call.events) = Cardinality(ReportedPlaces(result))
                /\ \A n \in 1..Len(Submitted[k].call.events) :
                     Submitted[k].call.events[n].event_type \in {"create", "update", "delete"}

\* The rename of PathA to PathB ran the consumer callback with an update of
\* each of the two paths.
C16_Witness ==
  \E k \in 1..Len(delivered) :
    /\ flushLog[delivered[k].flush].result
         = Ok(<<Debounced(Kind("Modify", "Name"), <<PathA, PathB>>)>>)
    /\ delivered[k].call.events = <<WatchEvent(PathA, "update"), WatchEvent(PathB, "update")>>

ErrorStep ==
  \/ /\ Len(queue') > Len(queue)
     /\ queue'[Len(queue')].call.error = "Some"
  \/ /\ Len(delivered') > Len(delivered)
     /\ delivered'[Len(delivered')].call.error = "Some"

\* C19: handing over or delivering a stream error changes neither the running
\* flag nor the watcher nor the debouncer thread: until unsubscribe is called
\* the Subscription stays running with its watcher held.
C19_ErrorKeepsSubscription ==
  /\ [][ErrorStep => UNCHANGED <<running, watcher, releases, thread>>]_vars
  /\ []((phase = "active" /\ unsubCalls = 0)
          => (running /\ watcher = "Some" /\ thread = "alive"))

\* An error was delivered, then a batch of events, with the flag still true.
C19_Witness ==
  /\ Len(delivered) = 2
  /\ delivered[1].call.error = "Some"
  /\ delivered[2].call.events # <<>>
  /\ running
  /\ watcher = "Some"

\* C20: between the operations on a Subscription, running is true exactly
\* when the watcher is held; before subscribe has returned Ok neither is
\* set, and only a step of unsubscribe or subscribe changes either.
C20_RunningIffWatcherHeld ==
  /\ []((phase = "active" /\ jsPc = "idle") => (running <=> watcher = "Some"))
  /\ [](phase # "active" => (~running /\ watcher = "None"))
  /\ [][(running' # running \/ watcher' # watcher)
          => (phase = "init" \/ jsPc = "unsub" \/ jsPc' = "unsub")]_vars

\* After unsubscribe returned, with deliveries made: flag false, watcher gone.
C20_Witness ==
  /\ phase = "active"
  /\ jsPc = "idle"
  /\ unsubReturns >= 1
  /\ ~running
  /\ watcher = "None"
  /\ delivered # <<>>

====
